---- MODULE Spec2Model ----
(***************************************************************************)
(* State-machine model of the solagent program                             *)
(* (programs/solagent/src/lib.rs).                                         *)
(*                                                                         *)
(* Every instruction handler is one action.  An action covers the whole    *)
(* transaction: the account constraints of its #[derive(Accounts)] struct, *)
(* the handler's require! checks and all its effects.  A transaction that  *)
(* fails changes nothing but `result`, which records the instruction and   *)
(* the error it returned.                                                  *)
(*                                                                         *)
(* Ledger assumptions (they are not part of lib.rs): a wallet is debited   *)
(* only by a system transfer its owner signed; the program may debit the   *)
(* lamports of the sub-accounts it derives (escrow, vault, stream_vault);  *)
(* a debit larger than the balance aborts the transaction; account rent is *)
(* not modelled.                                                           *)
(***************************************************************************)
EXTENDS Integers, Sequences, FiniteSets, TLC

(***************************************************************************)
(* Bounds of the model.  Word is the modulus of the unsigned machine word: *)
(* the program's u64 and i64 are modelled with 16 bits.                    *)
(***************************************************************************)
MaxTime == 1
MaxPayments == 1
MaxAmount == 2
InitLamports == 2
MaxTimeout == 1
MaxFeedbacks == 1
MaxStreams == 1
StreamLamports == 1000
Word == 65536
RepLamports == 33492922

Keys == {"k1", "k2", "k3"}

(***************************************************************************)
(* Program constants.                                                      *)
(***************************************************************************)
MinRunwaySeconds == 60
MaxIntentLen == 256
MaxCommentLen == 256
FeedbackCap == 100
CompletionCap == 500

VARIABLES
    now,        \* Clock::get()?.unix_timestamp
    lamports,   \* lamport balance of every funded account
    agents,     \* Agent accounts, keyed by the authority that derives the PDA
    services,   \* Service accounts, keyed by the provider agent
    feedbacks,  \* Feedback accounts, keyed by <<from_agent, to_agent>>
    payments,   \* Payment accounts, keyed by <<payer_agent, service, order>>
    streams,    \* Stream accounts, keyed by <<payer_agent, receiver_agent>>
    result,     \* the last step: the instruction and the error it returned ("Ok" if none)
    overflow_checks  \* the build profile: TRUE if integer overflow panics, FALSE if it wraps

vars == <<now, lamports, agents, services, feedbacks, payments, streams, result, overflow_checks>>

(***************************************************************************)
(* Account addresses.  Every address is a 4-tuple <<kind, x, y, n>>.       *)
(***************************************************************************)
Wallet(k) == <<"wallet", k, k, 0>>
Vault(a) == <<"vault", a, a, 0>>
Escrow(p) == <<"escrow", p[1], p[2], p[3]>>
StreamVault(s) == <<"stream_vault", s[1], s[2], 0>>

Bal(acc) == IF acc \in DOMAIN lamports THEN lamports[acc] ELSE 0

ProgramAccounts == {acc \in DOMAIN lamports : acc[1] # "wallet"}

Wallets == {Wallet(k) : k \in Keys}

\* lamports after moving `amount` from `from` to `to`
Moved(l, from, to, amount) ==
    LET bal(acc) == IF acc \in DOMAIN l THEN l[acc] ELSE 0
        d == [acc \in DOMAIN l \cup {from} |->
                 IF acc = from THEN bal(acc) - amount ELSE bal(acc)]
    IN  [acc \in DOMAIN d \cup {to} |->
            IF acc = to
            THEN (IF acc \in DOMAIN d THEN d[acc] ELSE 0) + amount
            ELSE d[acc]]

Min(a, b) == IF a <= b THEN a ELSE b

(***************************************************************************)
(* Reputation score (stake_reputation lines 83-91, submit_feedback lines   *)
(* 124-132).  RepThresholds[k] is the least total_staked, in lamports, for *)
(* which (staked_sol.log2() * 10.0 + 50.0) as u64 >= k, with staked_sol =  *)
(* total_staked as f64 / 1_000_000_000.0.  The cast truncates and          *)
(* saturates: every negative value becomes 0.                              *)
(***************************************************************************)
RepThresholds ==
    << 33492921, 35896824, 38473263, 41234623, 44194174, 47366143,
       50765775, 54409411, 58314562, 62500000, 66985842, 71793648,
       76946526, 82469245, 88388348, 94732286, 101531550, 108818821,
       116629124, 125000000, 133971683, 143587295, 153893052, 164938489,
       176776696, 189464571, 203063100, 217637641, 233258248, 250000000,
       267943366, 287174589, 307786104, 329876978, 353553391, 378929142,
       406126199, 435275282, 466516496, 500000000, 535886732, 574349178,
       615572207, 659753956, 707106782, 757858284, 812252397, 870550564,
       933032992, 1000000000, 1071773463, 1148698355, 1231144414,
       1319507911, 1414213563, 1515716567, 1624504793, 1741101127,
       1866065984, 2000000000, 2143546926 >>

base_rep(total_staked) ==
    IF total_staked > 0
    THEN Cardinality({k \in DOMAIN RepThresholds : RepThresholds[k] <= total_staked})
    ELSE 0

\* The feedback bonus wraps at the cap instead of saturating at it.
score_wrapping_bonus(total_staked, feedbacks_received, services_completed) ==
    base_rep(total_staked)
        + (feedbacks_received % FeedbackCap) * 2
        + Min(services_completed, CompletionCap)

score(total_staked, feedbacks_received, services_completed) ==
    base_rep(total_staked)
        + Min(feedbacks_received, FeedbackCap) * 2
        + Min(services_completed, CompletionCap)

(***************************************************************************)
(* register_agent and create_service initialise the accounts the payment,  *)
(* reputation and stream instructions work on.                             *)
(***************************************************************************)
NewAgent(authority) ==
    [authority |-> authority, reputation_score |-> 0, total_staked |-> 0,
     total_earned |-> 0, total_spent |-> 0, services_completed |-> 0,
     services_requested |-> 0, feedbacks_received |-> 0]

NewService(agent) ==
    [provider |-> agent, authority |-> agent, total_orders |-> 0, total_revenue |-> 0]

(***************************************************************************)
(* stake_reputation: the agent is the signer's own agent (seeds, has_one). *)
(***************************************************************************)
stake_reputation_error(authority, amount) ==
    CASE authority \notin DOMAIN agents -> "AccountNotInitialized"
      [] ~(amount > 0) -> "ZeroAmount"
      [] Bal(Wallet(authority)) < amount -> "InsufficientFunds"
      [] OTHER -> "Ok"

Rescored(agent) ==
    [agent EXCEPT !.reputation_score =
        score(agent.total_staked, agent.feedbacks_received, agent.services_completed)]

StakeReputation(authority, amount) ==
    LET err == stake_reputation_error(authority, amount) IN
    /\ result' = [op |-> "stake_reputation", err |-> err]
    /\ IF err = "Ok"
       THEN /\ lamports' = Moved(lamports, Wallet(authority), Vault(authority), amount)
            /\ agents' = [agents EXCEPT ![authority] =
                   Rescored([@ EXCEPT !.total_staked = @ + amount])]
       ELSE UNCHANGED <<lamports, agents>>
    /\ UNCHANGED <<now, services, feedbacks, payments, streams, overflow_checks>>

(***************************************************************************)
(* submit_feedback.  The feedback PDA is derived from from_agent and       *)
(* to_agent and created by init; from_agent is not tied to the signer.     *)
(***************************************************************************)
\* An existing feedback account is accepted, as with init_if_needed.
submit_feedback_error_reinit(from_agent, to_agent, rating, comment_len) ==
    CASE ~(rating >= 1 /\ rating <= 5) -> "InvalidRating"
      [] ~(comment_len <= MaxCommentLen) -> "CommentTooLong"
      [] OTHER -> "Ok"

\* The rating is not validated.
submit_feedback_error_any_rating(from_agent, to_agent, rating, comment_len) ==
    CASE <<from_agent, to_agent>> \in feedbacks -> "AccountAlreadyInUse"
      [] ~(comment_len <= MaxCommentLen) -> "CommentTooLong"
      [] OTHER -> "Ok"

submit_feedback_error(from_agent, to_agent, rating, comment_len) ==
    CASE <<from_agent, to_agent>> \in feedbacks -> "AccountAlreadyInUse"
      [] ~(rating >= 1 /\ rating <= 5) -> "InvalidRating"
      [] ~(comment_len <= MaxCommentLen) -> "CommentTooLong"
      [] OTHER -> "Ok"

SubmitFeedback(authority, from_agent, to_agent, rating, comment_len) ==
    LET err == submit_feedback_error(from_agent, to_agent, rating, comment_len) IN
    /\ result' = [op |-> "submit_feedback", err |-> err]
    /\ IF err = "Ok"
       THEN /\ feedbacks' = feedbacks \cup {<<from_agent, to_agent>>}
            /\ agents' = [agents EXCEPT ![to_agent] =
                   Rescored([@ EXCEPT !.feedbacks_received = @ + 1])]
       ELSE UNCHANGED <<feedbacks, agents>>
    /\ UNCHANGED <<now, lamports, services, payments, streams, overflow_checks>>

(***************************************************************************)
(* pay_for_service.  The payment PDA is derived from payer_agent, service  *)
(* and service.total_orders; the escrow PDA from the payment.  Neither     *)
(* payer_agent nor receiver_agent is tied to payer_authority or service.   *)
(***************************************************************************)
PaymentKey(payer_agent, service) ==
    <<payer_agent, service, services[service].total_orders>>

pay_for_service_error(payer_authority, payer_agent, service, amount, intent_len) ==
    CASE PaymentKey(payer_agent, service) \in DOMAIN payments -> "AccountAlreadyInUse"
      [] ~(amount > 0) -> "ZeroAmount"
      [] ~(intent_len <= MaxIntentLen) -> "IntentTooLong"
      [] Bal(Wallet(payer_authority)) < amount -> "InsufficientFunds"
      [] OTHER -> "Ok"

NewPayment(payer_agent, receiver_agent, service, amount, timeout_seconds) ==
    [payer |-> payer_agent, receiver |-> receiver_agent, service |-> service,
     amount |-> amount, status |-> "Escrowed", created_at |-> now,
     timeout_at |-> now + timeout_seconds, completed_at |-> 0]

PayForService(payer_authority, payer_agent, receiver_agent, service, amount, intent_len, timeout_seconds) ==
    LET err == pay_for_service_error(payer_authority, payer_agent, service, amount, intent_len)
        p == PaymentKey(payer_agent, service)
    IN
    /\ Cardinality(DOMAIN payments) < MaxPayments
    /\ result' = [op |-> "pay_for_service", err |-> err]
    /\ IF err = "Ok"
       THEN /\ lamports' = Moved(lamports, Wallet(payer_authority), Escrow(p), amount)
            /\ payments' = payments @@
                   (p :> NewPayment(payer_agent, receiver_agent, service, amount, timeout_seconds))
            /\ agents' = [agents EXCEPT
                   ![payer_agent].services_requested = @ + 1,
                   ![payer_agent].total_spent = @ + amount]
            /\ services' = [services EXCEPT ![service].total_orders = @ + 1]
       ELSE UNCHANGED <<lamports, payments, agents, services>>
    /\ UNCHANGED <<now, feedbacks, streams, overflow_checks>>

(***************************************************************************)
(* release_payment.  ReleasePayment checks payment.payer == payer_agent    *)
(* and payer_agent.authority == authority; escrow, receiver_agent, service *)
(* and receiver_authority are taken as the caller supplies them.           *)
(***************************************************************************)
\* The constraints with has_one = authority left out.
release_constraints_no_authority(payment, payer_agent, authority) ==
    payments[payment].payer = payer_agent

release_constraints(payment, payer_agent, authority) ==
    /\ payments[payment].payer = payer_agent
    /\ agents[payer_agent].authority = authority

\* Any status passes.
status_is_escrowed_unchecked(payment) == TRUE

status_is_escrowed(payment) == payments[payment].status = "Escrowed"

release_payment_error(authority, payment, escrow, payer_agent) ==
    CASE ~release_constraints(payment, payer_agent, authority) -> "Unauthorized"
      [] ~status_is_escrowed(payment) -> "PaymentNotEscrowed"
      [] Bal(escrow) < payments[payment].amount -> "LamportUnderflow"
      [] OTHER -> "Ok"

ReleasePayment(authority, payment, escrow, payer_agent, receiver_agent, service, receiver_authority) ==
    LET err == release_payment_error(authority, payment, escrow, payer_agent)
        amount == payments[payment].amount
    IN
    /\ result' = [op |-> "release_payment", err |-> err]
    /\ IF err = "Ok"
       THEN /\ lamports' = Moved(lamports, escrow, receiver_authority, amount)
            /\ payments' = [payments EXCEPT
                   ![payment].status = "Released",
                   ![payment].completed_at = now]
            /\ agents' = [agents EXCEPT
                   ![receiver_agent].services_completed = @ + 1,
                   ![receiver_agent].total_earned = @ + amount]
            /\ services' = [services EXCEPT ![service].total_revenue = @ + amount]
       ELSE UNCHANGED <<lamports, payments, agents, services>>
    /\ UNCHANGED <<now, feedbacks, streams, overflow_checks>>

(***************************************************************************)
(* refund_payment.  RefundPayment states no constraint: payer_agent,       *)
(* escrow and payer_authority are taken as the caller supplies them.       *)
(***************************************************************************)
is_timeout(payment) == now > payments[payment].timeout_at

is_payer(authority, payment, payer_agent) ==
    authority = agents[payer_agent].authority

refund_payment_error(authority, payment, escrow, payer_agent) ==
    CASE ~status_is_escrowed(payment) -> "PaymentNotEscrowed"
      [] ~(is_timeout(payment) \/ is_payer(authority, payment, payer_agent)) -> "RefundNotAllowed"
      [] Bal(escrow) < payments[payment].amount -> "LamportUnderflow"
      [] OTHER -> "Ok"

RefundPayment(authority, payment, escrow, payer_agent, payer_authority) ==
    LET err == refund_payment_error(authority, payment, escrow, payer_agent)
        amount == payments[payment].amount
    IN
    /\ result' = [op |-> "refund_payment", err |-> err]
    /\ IF err = "Ok"
       THEN /\ lamports' = Moved(lamports, escrow, payer_authority, amount)
            /\ payments' = [payments EXCEPT
                   ![payment].status = "Refunded",
                   ![payment].completed_at = now]
       ELSE UNCHANGED <<lamports, payments>>
    /\ UNCHANGED <<now, agents, services, feedbacks, streams, overflow_checks>>

(***************************************************************************)
(* Machine arithmetic.  A u64 product that does not fit panics when the    *)
(* build checks overflow and wraps otherwise; `as u64` and `as i64` wrap.  *)
(***************************************************************************)
Overflows(x) == x >= Word
Wrapped(x) == x % Word
AsU64(x) == x % Word
AsI64(u) == IF u >= Word \div 2 THEN u - Word ELSE u

(***************************************************************************)
(* create_stream.  The stream PDA is derived from payer_agent and          *)
(* receiver_agent, the vault PDA from the stream.                          *)
(***************************************************************************)
create_stream_error(payer_authority, payer_agent, receiver_agent, rate_per_second, deposit_amount) ==
    CASE <<payer_agent, receiver_agent>> \in DOMAIN streams -> "AccountAlreadyInUse"
      [] ~(rate_per_second > 0) -> "ZeroAmount"
      [] overflow_checks /\ Overflows(rate_per_second * MinRunwaySeconds) -> "ArithmeticOverflow"
      [] ~(deposit_amount >= Wrapped(rate_per_second * MinRunwaySeconds)) -> "InsufficientDeposit"
      [] Bal(Wallet(payer_authority)) < deposit_amount -> "InsufficientFunds"
      [] OTHER -> "Ok"

NewStream(payer_agent, receiver_agent, rate_per_second, max_duration_seconds, deposit_amount) ==
    [payer |-> payer_agent, receiver |-> receiver_agent,
     rate_per_second |-> rate_per_second, deposited |-> deposit_amount,
     withdrawn |-> 0, started_at |-> now,
     max_end_at |-> now + AsI64(max_duration_seconds),
     last_withdrawn_at |-> now, is_active |-> TRUE]

CreateStream(payer_authority, payer_agent, receiver_agent, rate_per_second, max_duration_seconds, deposit_amount) ==
    LET err == create_stream_error(payer_authority, payer_agent, receiver_agent,
                                   rate_per_second, deposit_amount)
        s == <<payer_agent, receiver_agent>>
    IN
    /\ Cardinality(DOMAIN streams) < MaxStreams
    /\ result' = [op |-> "create_stream", err |-> err]
    /\ IF err = "Ok"
       THEN /\ lamports' = Moved(lamports, Wallet(payer_authority), StreamVault(s), deposit_amount)
            /\ streams' = streams @@
                   (s :> NewStream(payer_agent, receiver_agent, rate_per_second,
                                   max_duration_seconds, deposit_amount))
       ELSE UNCHANGED <<lamports, streams>>
    /\ UNCHANGED <<now, agents, services, feedbacks, payments, overflow_checks>>

(***************************************************************************)
(* withdraw_stream.  WithdrawStream states no constraint: stream_vault,    *)
(* receiver_agent, receiver_authority and payer_authority are taken as the *)
(* caller supplies them, and any key may sign.                             *)
(***************************************************************************)
\* Any stream passes the is_active check.
stream_is_active_unchecked(stream) == TRUE

stream_is_active(stream) == streams[stream].is_active

end_time(stream) == Min(now, streams[stream].max_end_at)

elapsed(stream) == AsU64(end_time(stream) - streams[stream].last_withdrawn_at)

amount_due(stream) == Wrapped(elapsed(stream) * streams[stream].rate_per_second)

available(stream) == streams[stream].deposited - streams[stream].withdrawn

withdraw_amount(stream) == Min(amount_due(stream), available(stream))

\* withdrawn is overwritten with the amount of this withdrawal.
withdrawn_overwritten(withdrawn, amount) == amount

withdrawn_after(withdrawn, amount) == withdrawn + amount

\* last_withdrawn_at is left as it was.
last_withdrawn_unchanged(stream) == streams[stream].last_withdrawn_at

\* last_withdrawn_at is set to the end of the stream.
last_withdrawn_at_max_end(stream) == streams[stream].max_end_at

last_withdrawn_after(stream) == now

\* The auto-close test, after the withdrawal.
closes(stream) ==
    \/ withdrawn_after(streams[stream].withdrawn, withdraw_amount(stream))
           >= streams[stream].deposited
    \/ now >= streams[stream].max_end_at

remaining(stream) ==
    streams[stream].deposited
        - withdrawn_after(streams[stream].withdrawn, withdraw_amount(stream))

withdraw_stream_error(stream, stream_vault) ==
    CASE ~stream_is_active(stream) -> "StreamNotActive"
      [] overflow_checks
           /\ Overflows(elapsed(stream) * streams[stream].rate_per_second) -> "ArithmeticOverflow"
      [] ~(withdraw_amount(stream) > 0) -> "NothingToWithdraw"
      [] Bal(stream_vault) < withdraw_amount(stream) -> "LamportUnderflow"
      [] closes(stream)
           /\ Bal(stream_vault) - withdraw_amount(stream) < remaining(stream) -> "LamportUnderflow"
      [] OTHER -> "Ok"

WithdrawStream(stream, stream_vault, receiver_agent, receiver_authority, payer_authority) ==
    LET err == withdraw_stream_error(stream, stream_vault)
        amount == withdraw_amount(stream)
        paid == Moved(lamports, stream_vault, receiver_authority, amount)
    IN
    /\ result' = [op |-> "withdraw_stream", err |-> err]
    /\ IF err = "Ok"
       THEN /\ lamports' = IF closes(stream) /\ remaining(stream) > 0
                           THEN Moved(paid, stream_vault, payer_authority, remaining(stream))
                           ELSE paid
            /\ streams' = [streams EXCEPT
                   ![stream].withdrawn = withdrawn_after(@, amount),
                   ![stream].last_withdrawn_at = last_withdrawn_after(stream),
                   ![stream].is_active = IF closes(stream) THEN FALSE ELSE @]
            /\ agents' = [agents EXCEPT ![receiver_agent].total_earned = @ + amount]
       ELSE UNCHANGED <<lamports, streams, agents>>
    /\ UNCHANGED <<now, services, feedbacks, payments, overflow_checks>>

(***************************************************************************)
(* The clock of the ledger advances between transactions.                  *)
(***************************************************************************)
Tick ==
    /\ now < MaxTime
    /\ now' = now + 1
    /\ result' = [op |-> "clock", err |-> "Ok"]
    /\ UNCHANGED <<lamports, agents, services, feedbacks, payments, streams, overflow_checks>>

(***************************************************************************)
(* Spec: the escrow payment state machine on an initially empty ledger.    *)
(***************************************************************************)
NoResult == [op |-> "none", err |-> "Ok"]

\* Every key has registered its agent, and every agent one service.
Init ==
    /\ now = 0
    /\ lamports = [acc \in Wallets |-> InitLamports]
    /\ agents = [k \in Keys |-> NewAgent(k)]
    /\ services = [k \in Keys |-> NewService(k)]
    /\ feedbacks = {}
    /\ payments = <<>>
    /\ streams = <<>>
    /\ result = NoResult
    /\ overflow_checks = TRUE

PayerAuthorityOf(payment) == agents[payments[payment].payer].authority

\* The arguments a failing transaction never reads are not enumerated.
Read(err, S) == IF err = "Ok" THEN S ELSE {CHOOSE x \in S : TRUE}

IntentLens == {MaxIntentLen, MaxIntentLen + 1}

DoPayForService ==
    \E payer_authority \in Keys, payer_agent \in DOMAIN agents,
       service \in DOMAIN services, amount \in 0..MaxAmount,
       intent_len \in IntentLens :
        LET err == pay_for_service_error(payer_authority, payer_agent, service, amount, intent_len)
        IN  \E receiver_agent \in Read(err, DOMAIN agents),
               timeout_seconds \in Read(err, 0..MaxTimeout) :
                PayForService(payer_authority, payer_agent, receiver_agent, service,
                              amount, intent_len, timeout_seconds)

DoReleasePayment ==
    \E authority \in Keys, payment \in DOMAIN payments, escrow \in ProgramAccounts,
       payer_agent \in DOMAIN agents :
        LET err == release_payment_error(authority, payment, escrow, payer_agent)
        IN  \E receiver_agent \in Read(err, DOMAIN agents),
               service \in Read(err, DOMAIN services),
               receiver_authority \in Read(err, Wallets) :
                ReleasePayment(authority, payment, escrow, payer_agent, receiver_agent,
                               service, receiver_authority)

DoRefundPayment ==
    \E authority \in Keys, payment \in DOMAIN payments, escrow \in ProgramAccounts,
       payer_agent \in DOMAIN agents :
        LET err == refund_payment_error(authority, payment, escrow, payer_agent)
        IN  \E payer_authority \in Read(err, Wallets) :
                RefundPayment(authority, payment, escrow, payer_agent, payer_authority)

Next ==
    \/ Tick
    \/ DoPayForService
    \/ DoReleasePayment
    \/ DoRefundPayment

Spec == Init /\ [][Next]_vars

(***************************************************************************)
(* SpecRep: the reputation engine.  Agents k1 and k2 are registered and k2 *)
(* offers a service.  k1 has a history with raters and payers outside the  *)
(* model: either none, or a total_staked just below one whole unit with    *)
(* feedbacks_received and services_completed one below their caps and the  *)
(* stored score its last stake or feedback computed.                       *)
(***************************************************************************)
RepAgents == {"k1", "k2"}
StakeAmounts == {0, 16746460, 16746461}
\* <<total_staked, feedbacks_received, services_completed>> of k1 at the start
Histories == {<<0, 0, 0>>, <<983253539, FeedbackCap - 1, CompletionCap - 1>>}

InitRep ==
    /\ now = 0
    /\ \E h \in Histories :
          /\ agents = [k \in RepAgents |->
                 IF k = "k1"
                 THEN [NewAgent(k) EXCEPT
                          !.total_staked = h[1],
                          !.feedbacks_received = h[2],
                          !.services_completed = h[3],
                          !.reputation_score = score(h[1], h[2], h[3])]
                 ELSE NewAgent(k)]
          /\ lamports = [acc \in Wallets \cup {Vault("k1")} |->
                 CASE acc = Wallet("k1") -> RepLamports
                   [] acc = Vault("k1") -> h[1]
                   [] OTHER -> InitLamports]
    /\ services = [k \in {"k2"} |-> NewService(k)]
    /\ feedbacks = {}
    /\ payments = <<>>
    /\ streams = <<>>
    /\ result = NoResult
    /\ overflow_checks = TRUE

DoStakeReputation ==
    \E authority \in Keys, amount \in StakeAmounts : StakeReputation(authority, amount)

Ratings == {0, 1, 5, 6}
CommentLens == {MaxCommentLen, MaxCommentLen + 1}

DoSubmitFeedback ==
    \E authority \in Keys, from_agent \in DOMAIN agents, to_agent \in DOMAIN agents,
       rating \in Ratings, comment_len \in CommentLens :
        /\ Cardinality(feedbacks) < MaxFeedbacks
        /\ SubmitFeedback(authority, from_agent, to_agent, rating, comment_len)

\* Payments between the agents, each paid by the payer agent's own authority
\* and released by it from the payment's own escrow.
DoPayForServiceRep ==
    \E payer_agent \in DOMAIN agents, receiver_agent \in DOMAIN agents,
       service \in DOMAIN services :
        PayForService(agents[payer_agent].authority, payer_agent, receiver_agent,
                      service, MaxAmount, MaxIntentLen, 0)

DoReleasePaymentRep ==
    \E payment \in DOMAIN payments, receiver_agent \in DOMAIN agents,
       service \in DOMAIN services, receiver_authority \in Wallets :
        ReleasePayment(PayerAuthorityOf(payment), payment, Escrow(payment),
                       payments[payment].payer, receiver_agent, service,
                       receiver_authority)

NextRep ==
    \/ DoStakeReputation
    \/ DoSubmitFeedback
    \/ DoPayForServiceRep
    \/ DoReleasePaymentRep

SpecRep == InitRep /\ [][NextRep]_vars

(***************************************************************************)
(* SpecFeedback: the feedback records.  The three agents of Init rate each *)
(* other, and themselves, any number of times.                             *)
(***************************************************************************)
DoSubmitFeedbackAgain ==
    \E authority \in Keys, from_agent \in DOMAIN agents, to_agent \in DOMAIN agents,
       rating \in Ratings, comment_len \in CommentLens :
        SubmitFeedback(authority, from_agent, to_agent, rating, comment_len)

NextFeedback == DoSubmitFeedbackAgain

SpecFeedback == Init /\ [][NextFeedback]_vars

(***************************************************************************)
(* SpecStream: the streaming payments under a monotonic clock.  Agents k1  *)
(* and k2 are registered and the wallet of k1 is funded.  SpecStreamSkew   *)
(* is the same with a clock that may also move backwards.                  *)
(***************************************************************************)
ClockValues == {0, 50, 150, 250}
Rates == {0, 1, 10, 1093}
Durations == {0, 200, Word - 1}
Deposits == {59, 60, 1000}

InitStream ==
    /\ now = 0
    /\ lamports = [acc \in Wallets |->
                      IF acc = Wallet("k1") THEN StreamLamports ELSE 0]
    /\ agents = [k \in RepAgents |-> NewAgent(k)]
    /\ services = <<>>
    /\ feedbacks = {}
    /\ payments = <<>>
    /\ streams = <<>>
    /\ result = NoResult
    /\ overflow_checks \in BOOLEAN

ClockTo(t) ==
    /\ now' = t
    /\ result' = [op |-> "clock", err |-> "Ok"]
    /\ UNCHANGED <<lamports, agents, services, feedbacks, payments, streams, overflow_checks>>

ClockAdvances == \E t \in ClockValues : t > now /\ ClockTo(t)

ClockJumps == \E t \in ClockValues : t # now /\ ClockTo(t)

DoCreateStream ==
    \E payer_authority \in Keys, payer_agent \in DOMAIN agents,
       receiver_agent \in DOMAIN agents, rate_per_second \in Rates,
       deposit_amount \in Deposits :
        LET err == create_stream_error(payer_authority, payer_agent, receiver_agent,
                                       rate_per_second, deposit_amount)
        IN  \E max_duration_seconds \in Read(err, Durations) :
                CreateStream(payer_authority, payer_agent, receiver_agent,
                             rate_per_second, max_duration_seconds, deposit_amount)

DoWithdrawStream ==
    \E stream \in DOMAIN streams, stream_vault \in ProgramAccounts :
        LET err == withdraw_stream_error(stream, stream_vault)
        IN  \E receiver_agent \in Read(err, DOMAIN agents),
               receiver_authority \in Read(err, Wallets),
               payer_authority \in Read(err, Wallets) :
                WithdrawStream(stream, stream_vault, receiver_agent,
                               receiver_authority, payer_authority)

NextStream ==
    \/ ClockAdvances
    \/ DoCreateStream
    \/ DoWithdrawStream

SpecStream == InitStream /\ [][NextStream]_vars

NextStreamSkew ==
    \/ ClockJumps
    \/ DoCreateStream
    \/ DoWithdrawStream

SpecStreamSkew == InitStream /\ [][NextStreamSkew]_vars

(***************************************************************************)
(* Properties of the escrow payment state machine.                         *)
(***************************************************************************)
PayerAuthority(p) == PayerAuthorityOf(p)
ReceiverAuthority(p) == agents[payments[p].receiver].authority

LedgerUnchanged == UNCHANGED <<now, lamports, agents, services, feedbacks, payments, streams, overflow_checks>>

\* The payments a step resolves.
Resolved(p) ==
    /\ p \in DOMAIN payments
    /\ payments[p].status = "Escrowed"
    /\ payments'[p].status # "Escrowed"

EscrowHoldsAmount ==
    \A p \in DOMAIN payments :
        payments[p].status = "Escrowed" => Bal(Escrow(p)) = payments[p].amount

ResolutionPaysOneParty(p) ==
    LET amount == payments[p].amount
        toReceiver == Bal(Wallet(ReceiverAuthority(p)))' = Bal(Wallet(ReceiverAuthority(p))) + amount
        toPayer == Bal(Wallet(PayerAuthority(p)))' = Bal(Wallet(PayerAuthority(p))) + amount
    IN  /\ Bal(Escrow(p)) = amount
        /\ Bal(Escrow(p))' = 0
        /\ toReceiver \/ toPayer
        /\ PayerAuthority(p) # ReceiverAuthority(p) => ~(toReceiver /\ toPayer)

\* C1: escrow conservation.  While a payment is Escrowed its escrow account
\* holds exactly payment.amount; the step that resolves it empties that escrow
\* and adds the amount to exactly one of the receiver's and the payer's wallet.
C1_EscrowConservation ==
    [][ /\ EscrowHoldsAmount'
        /\ \A p \in DOMAIN payments : Resolved(p) => ResolutionPaysOneParty(p)
      ]_vars

StatusOneWay ==
    \A p \in DOMAIN payments :
        /\ p \in DOMAIN payments'
        /\ payments'[p].status # payments[p].status =>
              /\ payments[p].status = "Escrowed"
              /\ \/ payments'[p].status = "Released" /\ result'.op = "release_payment"
                 \/ payments'[p].status = "Refunded" /\ result'.op = "refund_payment"
        /\ payments[p].status # "Escrowed" => payments'[p] = payments[p]

FailedResolutionMovesNothing ==
    /\ result'.op \in {"release_payment", "refund_payment"}
    /\ result'.err # "Ok"
    => lamports' = lamports /\ payments' = payments

\* Every refund_payment call on a payment that is not Escrowed returns
\* PaymentNotEscrowed.
RefundOfResolvedRejected ==
    \A authority \in Keys, payment \in DOMAIN payments,
       escrow \in ProgramAccounts, payer_agent \in DOMAIN agents :
        payments[payment].status # "Escrowed" =>
            refund_payment_error(authority, payment, escrow, payer_agent) = "PaymentNotEscrowed"

\* Every release_payment call on a payment that is not Escrowed returns
\* PaymentNotEscrowed.
ReleaseOfResolvedRejected ==
    \A authority \in Keys, payment \in DOMAIN payments,
       escrow \in ProgramAccounts, payer_agent \in DOMAIN agents :
        payments[payment].status # "Escrowed" =>
            release_payment_error(authority, payment, escrow, payer_agent) = "PaymentNotEscrowed"

\* The same, with the account constraints of ReleasePayment checked first.
ReleaseOfResolvedRejectedOrUnauthorized ==
    \A authority \in Keys, payment \in DOMAIN payments,
       escrow \in ProgramAccounts, payer_agent \in DOMAIN agents :
        payments[payment].status # "Escrowed" =>
            release_payment_error(authority, payment, escrow, payer_agent) =
                IF payments[payment].payer = payer_agent
                   /\ agents[payer_agent].authority = authority
                THEN "PaymentNotEscrowed"
                ELSE "Unauthorized"

\* C2 as stated: the payment status is a one-way state machine (Escrowed ->
\* Released by release_payment, Escrowed -> Refunded by refund_payment, nothing
\* else), a resolved payment never changes again, and release_payment or
\* refund_payment on a payment that is not Escrowed fails with
\* PaymentNotEscrowed and moves no funds.
C2_OneWayStatus_AsStated ==
    [][ /\ StatusOneWay
        /\ FailedResolutionMovesNothing
        /\ RefundOfResolvedRejected'
        /\ ReleaseOfResolvedRejected'
      ]_vars

\* C2 amended: as stated, except that release_payment on a payment that is not
\* Escrowed fails with PaymentNotEscrowed only when the account constraints
\* hold (payer_agent is the payment's payer and the signer its authority) and
\* with Unauthorized otherwise.
C2_OneWayStatus ==
    [][ /\ StatusOneWay
        /\ FailedResolutionMovesNothing
        /\ RefundOfResolvedRejected'
        /\ ReleaseOfResolvedRejectedOrUnauthorized'
      ]_vars

\* A resolved payment on which release_payment has just been rejected.
C2_Witness ==
    /\ result = [op |-> "release_payment", err |-> "PaymentNotEscrowed"]
    /\ \E p \in DOMAIN payments : payments[p].status \in {"Released", "Refunded"}

\* C3: on an Escrowed payment whose timeout has not yet been reached, every
\* refund_payment call signed by a key that is not the authority of the
\* payment's payer agent returns RefundNotAllowed, whatever escrow and
\* payer_agent accounts the caller supplies.
C3_EarlyRefundByStrangerRejected ==
    \A authority \in Keys, payment \in DOMAIN payments,
       escrow \in ProgramAccounts, payer_agent \in DOMAIN agents :
        /\ payments[payment].status = "Escrowed"
        /\ now < payments[payment].timeout_at
        /\ authority # PayerAuthority(payment)
        => refund_payment_error(authority, payment, escrow, payer_agent) = "RefundNotAllowed"

\* C4: once now > timeout_at, refund_payment on an Escrowed payment succeeds
\* for every caller, and a successful refund moves the escrowed amount to the
\* wallet of the payment's payer, sets status Refunded and completed_at = now.
RefundAfterTimeoutAccepted ==
    \A authority \in Keys, payment \in DOMAIN payments, payer_agent \in DOMAIN agents :
        /\ payments[payment].status = "Escrowed"
        /\ now > payments[payment].timeout_at
        => refund_payment_error(authority, payment, Escrow(payment), payer_agent) = "Ok"

RefundEffects(p) ==
    LET amount == payments[p].amount IN
    /\ payments'[p].status = "Refunded"
    /\ payments'[p].completed_at = now
    /\ Bal(Escrow(p))' = Bal(Escrow(p)) - amount
    /\ Bal(Wallet(PayerAuthority(p)))' = Bal(Wallet(PayerAuthority(p))) + amount

C4_TimeoutRefundToPayer ==
    [][ /\ RefundAfterTimeoutAccepted'
        /\ \A p \in DOMAIN payments :
              Resolved(p) /\ result'.op = "refund_payment" /\ now > payments[p].timeout_at
              => RefundEffects(p)
      ]_vars

\* C5: release_payment on an Escrowed payment signed by any key other than the
\* authority of the payment's payer agent returns Unauthorized, whatever
\* accounts are supplied; a release that returns Unauthorized changes nothing;
\* the signer of a release that resolves a payment is its payer's authority.
ReleaseByStrangerUnauthorized ==
    \A authority \in Keys, payment \in DOMAIN payments,
       escrow \in ProgramAccounts, payer_agent \in DOMAIN agents :
        /\ payments[payment].status = "Escrowed"
        /\ authority # PayerAuthority(payment)
        => release_payment_error(authority, payment, escrow, payer_agent) = "Unauthorized"

C5_ReleaseAuthorization ==
    [][ /\ ReleaseByStrangerUnauthorized'
        /\ result'.op = "release_payment" /\ result'.err = "Unauthorized" => LedgerUnchanged
      ]_vars

\* release_payment has just been rejected as Unauthorized on an Escrowed payment.
C5_Witness ==
    /\ result = [op |-> "release_payment", err |-> "Unauthorized"]
    /\ \E p \in DOMAIN payments : payments[p].status = "Escrowed"

\* C6: a successful release_payment moves exactly payment.amount from the
\* payment's escrow to the wallet of the receiver recorded in the payment, sets
\* status Released and completed_at = now, adds 1 to services_completed and
\* amount to total_earned of the recorded receiver agent, and amount to
\* total_revenue of the recorded service.
ReleaseEffects(p) ==
    LET amount == payments[p].amount
        receiver == payments[p].receiver
        service == payments[p].service
    IN
    /\ payments'[p].status = "Released"
    /\ payments'[p].completed_at = now
    /\ Bal(Escrow(p))' = Bal(Escrow(p)) - amount
    /\ Bal(Wallet(ReceiverAuthority(p)))' = Bal(Wallet(ReceiverAuthority(p))) + amount
    /\ agents'[receiver].services_completed = agents[receiver].services_completed + 1
    /\ agents'[receiver].total_earned = agents[receiver].total_earned + amount
    /\ services'[service].total_revenue = services[service].total_revenue + amount

C6_ReleaseEffects ==
    [][ \A p \in DOMAIN payments :
            Resolved(p) /\ result'.op = "release_payment" => ReleaseEffects(p)
      ]_vars

\* C7: the stored reputation_score of every agent equals the score of its
\* current total_staked, feedbacks_received and services_completed.
C7_ReputationDerived ==
    \A a \in DOMAIN agents :
        agents[a].reputation_score =
            score(agents[a].total_staked, agents[a].feedbacks_received,
                  agents[a].services_completed)

(***************************************************************************)
(* Properties of the reputation engine.                                    *)
(***************************************************************************)
ScoreOf(agent) ==
    score(agent.total_staked, agent.feedbacks_received, agent.services_completed)

\* C8: reputation monotonicity.  Across every step (stake_reputation,
\* submit_feedback, release_payment) the inputs total_staked,
\* feedbacks_received and services_completed of every agent do not decrease,
\* the score of the inputs does not decrease, and the stored reputation_score
\* does not decrease.
C8_ReputationMonotone ==
    [][ \A a \in DOMAIN agents :
            /\ agents'[a].total_staked >= agents[a].total_staked
            /\ agents'[a].feedbacks_received >= agents[a].feedbacks_received
            /\ agents'[a].services_completed >= agents[a].services_completed
            /\ ScoreOf(agents'[a]) >= ScoreOf(agents[a])
            /\ agents'[a].reputation_score >= agents[a].reputation_score
      ]_vars

\* An agent whose stake is below one whole unit, so that the logarithm is
\* negative, has just staked.
C8_Witness ==
    /\ result = [op |-> "stake_reputation", err |-> "Ok"]
    /\ agents["k1"].total_staked > 0
    /\ agents["k1"].total_staked < RepThresholds[1]

(***************************************************************************)
(* Properties of the streaming payments.                                   *)
(***************************************************************************)
\* C9: for every stream, 0 <= withdrawn <= deposited in every state, and no
\* step decreases withdrawn, whatever the clock reads at each withdraw_stream.
C9_WithdrawnBounded ==
    [][ \A s \in DOMAIN streams' :
            /\ 0 <= streams'[s].withdrawn
            /\ streams'[s].withdrawn <= streams'[s].deposited
            /\ s \in DOMAIN streams => streams'[s].withdrawn >= streams[s].withdrawn
      ]_vars

\* A withdrawal has just succeeded at a clock reading earlier than the start
\* of the stream.
C9_Witness ==
    /\ result = [op |-> "withdraw_stream", err |-> "Ok"]
    /\ \E s \in DOMAIN streams :
          /\ streams[s].withdrawn > 0
          /\ streams[s].last_withdrawn_at = now
          /\ now < streams[s].started_at

StreamPayerWallet(s) == Wallet(agents[streams[s].payer].authority)
StreamReceiverWallet(s) == Wallet(agents[streams[s].receiver].authority)

VaultHoldsRemainder ==
    \A s \in DOMAIN streams :
        Bal(StreamVault(s)) =
            IF streams[s].is_active
            THEN streams[s].deposited - streams[s].withdrawn
            ELSE 0

\* What a withdrawal on stream s pays: the amount added to withdrawn goes to
\* the receiver and, when the stream closes, the rest of the deposit to the payer.
WithdrawalPaysParties(s) ==
    LET paid == streams'[s].withdrawn - streams[s].withdrawn
        refunded == IF streams'[s].is_active
                    THEN 0
                    ELSE streams'[s].deposited - streams'[s].withdrawn
        r == StreamReceiverWallet(s)
        p == StreamPayerWallet(s)
    IN  IF r = p
        THEN Bal(r)' = Bal(r) + paid + refunded
        ELSE /\ Bal(r)' = Bal(r) + paid
             /\ Bal(p)' = Bal(p) + refunded

\* C10: stream conservation.  The vault of an active stream holds exactly
\* deposited - withdrawn and the vault of a closed stream holds nothing; every
\* withdrawal pays its amount to the stream's receiver and, when it closes the
\* stream, the remainder to the stream's payer, so that at close the amounts
\* withdrawn to the receiver plus the remainder refunded add up to deposited.
C10_StreamConservation ==
    [][ /\ VaultHoldsRemainder'
        /\ \A s \in DOMAIN streams :
              result'.op = "withdraw_stream" /\ streams'[s] # streams[s]
              => WithdrawalPaysParties(s)
      ]_vars

\* The step is a successful withdrawal on stream s.
Withdrawal(s) ==
    /\ result'.op = "withdraw_stream"
    /\ result'.err = "Ok"
    /\ s \in DOMAIN streams
    /\ streams'[s] # streams[s]

FailedWithdrawalChangesNothing ==
    result'.op = "withdraw_stream" /\ result'.err # "Ok" => LedgerUnchanged

\* C11 as stated: right after a successful withdraw_stream on a stream, at the
\* same clock reading, every further withdraw_stream on it returns
\* NothingToWithdraw, also when the first call closed the stream; a failing
\* withdraw_stream changes nothing.
C11_SecondWithdrawal_AsStated ==
    [][ /\ \A s \in DOMAIN streams :
              Withdrawal(s) =>
                  \A v \in ProgramAccounts' :
                      withdraw_stream_error(s, v)' = "NothingToWithdraw"
        /\ FailedWithdrawalChangesNothing
      ]_vars

\* C11 amended: right after a successful withdraw_stream on a stream, at the
\* same clock reading, every further withdraw_stream on it returns
\* NothingToWithdraw if the first call left the stream active and
\* StreamNotActive if it closed the stream; a failing withdraw_stream changes
\* nothing.
C11_SecondWithdrawal ==
    [][ /\ \A s \in DOMAIN streams :
              Withdrawal(s) =>
                  \A v \in ProgramAccounts' :
                      withdraw_stream_error(s, v)' =
                          IF streams'[s].is_active
                          THEN "NothingToWithdraw"
                          ELSE "StreamNotActive"
        /\ FailedWithdrawalChangesNothing
      ]_vars

\* A second withdraw_stream at the clock reading of a successful one has just
\* been rejected on a stream that is still active.
C11_Witness ==
    /\ result = [op |-> "withdraw_stream", err |-> "NothingToWithdraw"]
    /\ \E s \in DOMAIN streams :
          /\ streams[s].is_active
          /\ streams[s].withdrawn > 0
          /\ streams[s].last_withdrawn_at = now

\* C12: a stream that is not active is never changed again (is_active stays
\* false, withdrawn and last_withdrawn_at stay as they are), every
\* withdraw_stream on it returns StreamNotActive, and a withdraw_stream that
\* returns StreamNotActive changes no balance and no account.
C12_DeactivationPermanent ==
    [][ /\ \A s \in DOMAIN streams :
              ~streams[s].is_active =>
                  /\ s \in DOMAIN streams'
                  /\ streams'[s] = streams[s]
                  /\ \A v \in ProgramAccounts' :
                         withdraw_stream_error(s, v)' = "StreamNotActive"
        /\ result'.op = "withdraw_stream" /\ result'.err = "StreamNotActive"
              => LedgerUnchanged
      ]_vars

\* withdraw_stream has just been rejected on a closed stream.
C12_Witness ==
    /\ result = [op |-> "withdraw_stream", err |-> "StreamNotActive"]
    /\ \E s \in DOMAIN streams : ~streams[s].is_active /\ streams[s].withdrawn > 0

LastWithdrawnAdvances ==
    \A s \in DOMAIN streams :
        s \in DOMAIN streams'
            => streams'[s].last_withdrawn_at >= streams[s].last_withdrawn_at

\* C13 as stated: under a monotonic clock, last_withdrawn_at of every stream
\* never decreases and never exceeds min(now, max_end_at); stated for the
\* streams opened with max_end_at at or after their start.
C13_LastWithdrawnBound_AsStated ==
    [][ /\ LastWithdrawnAdvances
        /\ \A s \in DOMAIN streams' :
              streams'[s].started_at <= streams'[s].max_end_at
              => streams'[s].last_withdrawn_at
                     <= Min(now', streams'[s].max_end_at)
      ]_vars

\* C13 amended: under a monotonic clock, last_withdrawn_at of every stream
\* never decreases and never exceeds now; a withdrawal sets it to now, also
\* when now is later than max_end_at.
C13_LastWithdrawnBound ==
    [][ /\ LastWithdrawnAdvances
        /\ \A s \in DOMAIN streams' : streams'[s].last_withdrawn_at <= now'
        /\ \A s \in DOMAIN streams :
              Withdrawal(s) => streams'[s].last_withdrawn_at = now'
      ]_vars

\* A withdrawal has just been made at a time later than max_end_at, on a
\* stream that was opened with max_end_at after its start.
C13_Witness ==
    /\ result = [op |-> "withdraw_stream", err |-> "Ok"]
    /\ \E s \in DOMAIN streams :
          /\ streams[s].started_at < streams[s].max_end_at
          /\ streams[s].max_end_at < now
          /\ streams[s].last_withdrawn_at = now

\* The amount a withdrawal on stream s is to pay, in unbounded integers.
AmountToPay(s) ==
    Min((Min(now, streams[s].max_end_at) - streams[s].last_withdrawn_at)
            * streams[s].rate_per_second,
        streams[s].deposited - streams[s].withdrawn)

\* C14: every successful withdraw_stream adds
\* min((min(now, max_end_at) - last_withdrawn_at) * rate_per_second,
\*     deposited - withdrawn)
\* to withdrawn and pays exactly that amount to the wallet of the stream's
\* receiver (which, when the receiver is also the payer, receives the closing
\* refund as well).
C14_WithdrawalAmount ==
    [][ \A s \in DOMAIN streams :
            Withdrawal(s) =>
                LET r == StreamReceiverWallet(s)
                    refunded == IF ~streams'[s].is_active /\ r = StreamPayerWallet(s)
                                THEN streams'[s].deposited - streams'[s].withdrawn
                                ELSE 0
                IN  /\ streams'[s].withdrawn = streams[s].withdrawn + AmountToPay(s)
                    /\ Bal(r)' = Bal(r) + AmountToPay(s) + refunded
      ]_vars

\* C15: after every successful withdraw_stream the stream is closed if and
\* only if withdrawn >= deposited or now >= max_end_at, and the withdrawal that
\* closes it moves the whole remainder deposited - withdrawn from the stream's
\* vault to the wallet of the stream's payer: the vault loses the amount
\* withdrawn and the remainder, and the payer's wallet gains at least the
\* remainder.
C15_AutoClose ==
    [][ \A s \in DOMAIN streams :
            Withdrawal(s) =>
                LET paid == streams'[s].withdrawn - streams[s].withdrawn
                    rest == streams'[s].deposited - streams'[s].withdrawn
                    p == StreamPayerWallet(s)
                IN  /\ ~streams'[s].is_active <=>
                           \/ streams'[s].withdrawn >= streams'[s].deposited
                           \/ now >= streams'[s].max_end_at
                    /\ ~streams'[s].is_active =>
                           /\ Bal(StreamVault(s))' = Bal(StreamVault(s)) - paid - rest
                           /\ Bal(p)' >= Bal(p) + rest
      ]_vars

\* C16: whenever min(now, max_end_at) is earlier than last_withdrawn_at of an
\* active stream, elapsed counts as 0 and every withdraw_stream on the stream
\* returns NothingToWithdraw.
C16_ClockRegressionClamp ==
    \A s \in DOMAIN streams :
        streams[s].is_active /\ end_time(s) < streams[s].last_withdrawn_at
        => \A v \in ProgramAccounts :
               withdraw_stream_error(s, v) = "NothingToWithdraw"

\* C17: no operation succeeds with a product that exceeds the machine word:
\* a create_stream that succeeds has rate_per_second * 60 within the word and
\* at most the deposit, a withdraw_stream that succeeds has
\* elapsed * rate_per_second within the word, and either operation, when it
\* fails, changes nothing.
C17_OverflowFails ==
    [][ /\ \A s \in DOMAIN streams' \ DOMAIN streams :
              /\ ~Overflows(streams'[s].rate_per_second * MinRunwaySeconds)
              /\ streams'[s].deposited >= streams'[s].rate_per_second * MinRunwaySeconds
        /\ \A s \in DOMAIN streams :
              Withdrawal(s) =>
                  ~Overflows(elapsed(s) * streams[s].rate_per_second)
        /\ result'.op \in {"create_stream", "withdraw_stream"} /\ result'.err # "Ok"
              => LedgerUnchanged
      ]_vars

(***************************************************************************)
(* Properties of the validation and the effects of single instructions.    *)
(***************************************************************************)
InvalidFeedbackRejected ==
    \A from_agent \in DOMAIN agents, to_agent \in DOMAIN agents,
       rating \in Ratings, comment_len \in CommentLens :
        ~(rating >= 1 /\ rating <= 5) \/ comment_len > 256
        => submit_feedback_error(from_agent, to_agent, rating, comment_len)
               \in {"InvalidRating", "CommentTooLong", "AccountAlreadyInUse"}

\* The step is a successful submit_feedback for to_agent.
FeedbackEffects(to_agent) ==
    LET before == agents[to_agent]
        after == agents'[to_agent]
        bonuses == Min(after.feedbacks_received, 100) * 2
                       + Min(after.services_completed, 500)
    IN  /\ after.feedbacks_received = before.feedbacks_received + 1
        /\ after.total_staked = before.total_staked
        /\ after.services_completed = before.services_completed
        /\ after.reputation_score = base_rep(after.total_staked) + bonuses
        /\ after.total_staked = 0 => after.reputation_score = bonuses
        /\ before.total_staked = 0 /\ before.feedbacks_received = 0
               /\ before.services_completed = 0
           => after.reputation_score = 2
        /\ \A a \in DOMAIN agents \ {to_agent} : agents'[a] = agents[a]
        /\ lamports' = lamports

\* C18: submit_feedback with a rating outside 1..5 or a comment longer than
\* 256 is rejected and a rejected submit_feedback changes nothing; a successful
\* one adds 1 to the ratee's feedbacks_received and sets the ratee's
\* reputation_score to base + min(feedbacks_received, 100) * 2 +
\* min(services_completed, 500) of the new counters, with base 0 when
\* total_staked is 0, which is 2 for a first rating of an agent with no stake
\* and no completed service.
C18_FeedbackIntake ==
    [][ /\ InvalidFeedbackRejected'
        /\ result'.op = "submit_feedback" /\ result'.err # "Ok" => LedgerUnchanged
        /\ result'.op = "submit_feedback" /\ result'.err = "Ok"
              => \E to_agent \in DOMAIN agents : FeedbackEffects(to_agent)
      ]_vars

\* A first rating of an agent with no stake and no completed service has just
\* been accepted.
C18_Witness ==
    /\ result = [op |-> "submit_feedback", err |-> "Ok"]
    /\ \E a \in DOMAIN agents :
          /\ agents[a].total_staked = 0
          /\ agents[a].services_completed = 0
          /\ agents[a].feedbacks_received = 1
          /\ agents[a].reputation_score = 2

\* The step opens stream s.
StreamOpenEffects(s) ==
    LET stream == streams'[s] IN
    /\ stream.withdrawn = 0
    /\ stream.started_at = now
    /\ stream.last_withdrawn_at = now
    /\ \E max_duration_seconds \in Durations :
           stream.max_end_at = now + max_duration_seconds
    /\ stream.is_active
    /\ stream.rate_per_second > 0
    /\ stream.deposited >= stream.rate_per_second * 60
    /\ \E payer_authority \in Keys :
           lamports' = Moved(lamports, Wallet(payer_authority), StreamVault(s),
                             stream.deposited)

\* C19: no create_stream with rate_per_second = 0 or deposit_amount <
\* rate_per_second * 60 succeeds and a rejected create_stream changes
\* nothing; a successful one moves deposit_amount from the paying wallet into
\* the stream's vault and records withdrawn = 0, started_at =
\* last_withdrawn_at = now, max_end_at = now + max_duration_seconds and
\* is_active = true.
C19_StreamOpen ==
    [][ /\ result'.op = "create_stream" /\ result'.err # "Ok" => LedgerUnchanged
        /\ \A s \in DOMAIN streams' \ DOMAIN streams : StreamOpenEffects(s)
      ]_vars

InvalidPaymentRejected ==
    \A payer_authority \in Keys, payer_agent \in DOMAIN agents,
       service \in DOMAIN services, amount \in 0..MaxAmount,
       intent_len \in IntentLens :
        amount = 0 \/ intent_len > 256
        => pay_for_service_error(payer_authority, payer_agent, service,
                                 amount, intent_len) # "Ok"

\* The step creates payment p.
PaymentEffects(p) ==
    LET payment == payments'[p]
        payer == payment.payer
    IN
    /\ payment.amount > 0
    /\ payment.status = "Escrowed"
    /\ payment.completed_at = 0
    /\ payment.created_at = now
    /\ \E timeout_seconds \in 0..MaxTimeout :
           payment.timeout_at = payment.created_at + timeout_seconds
    /\ lamports' = Moved(lamports, Wallet(agents[payer].authority), Escrow(p),
                         payment.amount)
    /\ agents' = [agents EXCEPT
           ![payer].services_requested = @ + 1,
           ![payer].total_spent = @ + payment.amount]
    /\ services' = [services EXCEPT ![payment.service].total_orders = @ + 1]

\* C20: pay_for_service with amount = 0 or an intent longer than 256 is
\* rejected and a rejected pay_for_service changes nothing; a successful one
\* moves amount from the wallet of the payment's payer into the payment's
\* escrow, records status Escrowed, completed_at = 0 and timeout_at =
\* created_at + timeout_seconds, adds 1 to services_requested and amount to
\* total_spent of the payer, and 1 to total_orders of the service.
C20_PaymentCreation ==
    [][ /\ InvalidPaymentRejected'
        /\ result'.op = "pay_for_service" /\ result'.err # "Ok" => LedgerUnchanged
        /\ \A p \in DOMAIN payments' \ DOMAIN payments : PaymentEffects(p)
      ]_vars

\* C21: a successful withdraw_stream adds the amount withdrawn to total_earned
\* of the stream's receiver agent, leaves every other field of that agent as it
\* was (reputation_score, services_completed, feedbacks_received and
\* total_staked among them), and leaves rate_per_second, deposited, started_at
\* and max_end_at of the stream as they were.
C21_WithdrawalFrame ==
    [][ \A s \in DOMAIN streams :
            Withdrawal(s) =>
                LET r == streams[s].receiver
                    paid == streams'[s].withdrawn - streams[s].withdrawn
                IN  /\ agents'[r] = [agents[r] EXCEPT !.total_earned = @ + paid]
                    /\ streams'[s].rate_per_second = streams[s].rate_per_second
                    /\ streams'[s].deposited = streams[s].deposited
                    /\ streams'[s].started_at = streams[s].started_at
                    /\ streams'[s].max_end_at = streams[s].max_end_at
      ]_vars

(***************************************************************************)
(* Properties of the feedback records.                                     *)
(***************************************************************************)
\* The agents that have rated agent a.
Raters(a) == {f[1] : f \in {g \in feedbacks : g[2] = a}}

ResubmissionRejected ==
    \A from_agent \in DOMAIN agents, to_agent \in DOMAIN agents,
       rating \in Ratings, comment_len \in CommentLens :
        <<from_agent, to_agent>> \in feedbacks
        => submit_feedback_error(from_agent, to_agent, rating, comment_len) # "Ok"

\* C22: a submit_feedback for a pair (rater, ratee) that already has a
\* feedback record fails; a failing submit_feedback changes nothing, the
\* ratee's feedbacks_received and reputation_score included; a successful one
\* creates the record of a pair that had none; and feedbacks_received of an
\* agent never exceeds the number of distinct agents that rated it.
C22_FeedbackUniqueness ==
    [][ /\ ResubmissionRejected'
        /\ result'.op = "submit_feedback" /\ result'.err # "Ok" => LedgerUnchanged
        /\ result'.op = "submit_feedback" /\ result'.err = "Ok"
              => Cardinality(feedbacks') = Cardinality(feedbacks) + 1
        /\ \A a \in DOMAIN agents' :
              agents'[a].feedbacks_received <= Cardinality(Raters(a)')
      ]_vars

\* A second submission for a pair has just been rejected; the ratee has
\* been rated by two agents.
C22_Witness ==
    /\ result = [op |-> "submit_feedback", err |-> "AccountAlreadyInUse"]
    /\ \E a \in DOMAIN agents :
          /\ agents[a].feedbacks_received = 2
          /\ Cardinality(Raters(a)) = 2

(***************************************************************************)
(* Further properties of the streaming payments.                           *)
(***************************************************************************)
\* What stream s has accrued at the present time, in unbounded integers.
Accrued(s) ==
    Min(streams[s].deposited,
        streams[s].rate_per_second
            * (Min(now, streams[s].max_end_at) - streams[s].started_at))

\* C23: under a monotonic clock, for a stream opened with max_end_at >=
\* started_at, after every successful withdraw_stream withdrawn equals
\* min(deposited, rate_per_second * (min(now, max_end_at) - started_at)),
\* and the withdrawal has paid the wallet of the stream's receiver exactly
\* what it added to withdrawn (the receiver who is also the payer receives
\* the closing refund as well).
C23_ClosedFormAccrual ==
    [][ \A s \in DOMAIN streams :
            Withdrawal(s) /\ streams[s].max_end_at >= streams[s].started_at =>
                LET r == StreamReceiverWallet(s)
                    paid == streams'[s].withdrawn - streams[s].withdrawn
                    refunded == IF ~streams'[s].is_active /\ r = StreamPayerWallet(s)
                                THEN streams'[s].deposited - streams'[s].withdrawn
                                ELSE 0
                IN  /\ streams'[s].withdrawn = Accrued(s)'
                    /\ Bal(r)' = Bal(r) + paid + refunded
      ]_vars

\* C24: once now >= max_end_at, withdraw_stream on a stream that is still
\* active, called with the stream's own vault, succeeds (and so closes the
\* stream and returns the rest of the deposit); stated for the streams opened
\* with max_end_at at or after their start, max_duration_seconds = 0 included.
C24_StreamClosable ==
    \A s \in DOMAIN streams :
        /\ streams[s].is_active
        /\ streams[s].started_at <= streams[s].max_end_at
        /\ now >= streams[s].max_end_at
        => withdraw_stream_error(s, StreamVault(s)) = "Ok"

\* C25: under a monotonic clock, every active stream has withdrawn <
\* deposited and started_at <= last_withdrawn_at <= max_end_at, so that
\* min(now, max_end_at) - last_withdrawn_at is not negative.
C25_ActiveStreamInvariant ==
    \A s \in DOMAIN streams :
        streams[s].is_active =>
            /\ streams[s].withdrawn < streams[s].deposited
            /\ streams[s].started_at <= streams[s].last_withdrawn_at
            /\ streams[s].last_withdrawn_at <= streams[s].max_end_at
            /\ end_time(s) - streams[s].last_withdrawn_at >= 0

====
